---- MODULE Spec2Model ----
(* Checkout flow of src/src/pages/CheckoutPage.tsx: the React component     *)
(* CheckoutPage, its entry-guard effect, the shipping form, and the async   *)
(* handlePayment handler with its four remote calls.  JavaScript numbers    *)
(* are IEEE-754 doubles; they are modelled exactly (53-bit significand,     *)
(* round-to-nearest-even) on arbitrary-precision naturals kept as           *)
(* little-endian limb sequences, because the amount sent to the payment     *)
(* gateway is computed in doubles.                                          *)
EXTENDS Integers, Sequences, FiniteSets, TLC

(***************************************************************************)
(* Arbitrary-precision naturals: little-endian sequences of limbs in       *)
(* 0..Base-1 with no leading (most significant) zero limb; <<>> is 0.      *)
(***************************************************************************)
LimbBits == 12

Base == 4096

RECURSIVE Pow2(_)
Pow2(n) == IF n = 0 THEN 1 ELSE 2 * Pow2(n - 1)

RECURSIVE BNorm(_)
BNorm(a) ==
  IF a = <<>> THEN <<>>
  ELSE IF a[Len(a)] = 0 THEN BNorm(SubSeq(a, 1, Len(a) - 1)) ELSE a

RECURSIVE BFromInt(_)
BFromInt(n) == IF n = 0 THEN <<>> ELSE <<n % Base>> \o BFromInt(n \div Base)

RECURSIVE BToInt(_)
BToInt(a) == IF a = <<>> THEN 0 ELSE a[1] + Base * BToInt(Tail(a))

Limb(a, i) == IF i <= Len(a) THEN a[i] ELSE 0

RECURSIVE BAddC(_, _, _)
BAddC(a, b, carry) ==
  IF a = <<>> /\ b = <<>> THEN (IF carry = 0 THEN <<>> ELSE <<carry>>)
  ELSE LET s == Limb(a, 1) + Limb(b, 1) + carry
           ta == IF a = <<>> THEN <<>> ELSE Tail(a)
           tb == IF b = <<>> THEN <<>> ELSE Tail(b)
       IN <<s % Base>> \o BAddC(ta, tb, s \div Base)

BAdd(a, b) == BNorm(BAddC(a, b, 0))

RECURSIVE BMulSmallC(_, _, _)
BMulSmallC(a, k, carry) ==
  IF a = <<>> THEN BFromInt(carry)
  ELSE LET p == a[1] * k + carry
       IN <<p % Base>> \o BMulSmallC(Tail(a), k, p \div Base)

(* a * k for a small multiplier k (k <= Base) *)
BMulSmall(a, k) == BNorm(BMulSmallC(a, k, 0))

RECURSIVE BMul(_, _)
BMul(a, b) ==
  IF b = <<>> \/ a = <<>> THEN <<>>
  ELSE BAdd(BMulSmall(a, b[1]),
            LET r == BMul(a, Tail(b)) IN IF r = <<>> THEN <<>> ELSE <<0>> \o r)

(* quotient and remainder of a by a small divisor d, most significant limb first *)
RECURSIVE BDivSmallR(_, _, _)
BDivSmallR(a, d, i) ==
  IF i > Len(a) THEN [q |-> <<>>, r |-> 0]
  ELSE LET hi == BDivSmallR(a, d, i + 1)
           cur == hi.r * Base + a[i]
       IN [q |-> <<cur \div d>> \o hi.q, r |-> cur % d]

BDivSmall(a, d) == BNorm(BDivSmallR(a, d, 1).q)

BModSmall(a, d) == BDivSmallR(a, d, 1).r

RECURSIVE Zeros(_)
Zeros(n) == IF n = 0 THEN <<>> ELSE <<0>> \o Zeros(n - 1)

BShl(a, n) ==
  IF a = <<>> THEN <<>>
  ELSE Zeros(n \div LimbBits) \o BMulSmall(a, Pow2(n % LimbBits))

BShr(a, n) ==
  IF n \div LimbBits >= Len(a) THEN <<>>
  ELSE BDivSmall(SubSeq(a, (n \div LimbBits) + 1, Len(a)), Pow2(n % LimbBits))

RECURSIVE IntBitLen(_)
IntBitLen(n) == IF n = 0 THEN 0 ELSE 1 + IntBitLen(n \div 2)

BBitLen(a) ==
  IF a = <<>> THEN 0 ELSE LimbBits * (Len(a) - 1) + IntBitLen(a[Len(a)])

BIsOdd(a) == a # <<>> /\ a[1] % 2 = 1

(***************************************************************************)
(* IEEE-754 binary64 values >= 0: [m, e] stands for m * 2^e with m below   *)
(* 2^53 (or exactly 2^53 after a carry out of rounding).  The exponent     *)
(* range is never approached by the amounts of a checkout.                 *)
(***************************************************************************)
MantBits == 53

(* round the exact value (N + sticky fraction) * 2^e to nearest, ties to even *)
RoundToDouble(N, e, sticky) ==
  LET L == BBitLen(N) IN
  IF L <= MantBits THEN [m |-> N, e |-> e]
  ELSE LET sh   == L - MantBits
           q    == BShr(N, sh)
           half == BIsOdd(BShr(N, sh - 1))
           low  == sticky \/ BShl(BShr(N, sh - 1), sh - 1) # N
           up   == half /\ (low \/ BIsOdd(q))
       IN [m |-> IF up THEN BAdd(q, <<1>>) ELSE q, e |-> e + sh]

FMul(a, b) == RoundToDouble(BMul(a.m, b.m), a.e + b.e, FALSE)

FAdd(a, b) ==
  LET e == IF a.e < b.e THEN a.e ELSE b.e
  IN RoundToDouble(BAdd(BShl(a.m, a.e - e), BShl(b.m, b.e - e)), e, FALSE)

DivScale == 72

(* the double nearest to the rational p / d, for naturals p and small d > 0 *)
DoubleOfRatio(p, d) ==
  LET N == BShl(BFromInt(p), DivScale)
  IN RoundToDouble(BDivSmall(N, d), 0 - DivScale, BModSmall(N, d) # 0)

DoubleOfInt(n) == [m |-> BFromInt(n), e |-> 0]

(* Math.round: nearest integer, ties toward +infinity *)
MathRound(x) ==
  IF x.e >= 0 THEN BToInt(BShl(x.m, x.e))
  ELSE BToInt(BShr(BAdd(x.m, BShl(<<1>>, (0 - x.e) - 1)), 0 - x.e))

(* line 22 *)
Tax(totalPrice) == FMul(totalPrice, DoubleOfRatio(1, 10))

(* line 23 *)
TotalAmount(totalPrice) == FAdd(totalPrice, Tax(totalPrice))

(***************************************************************************)
(* External collaborators' data: the cart store and the auth store.        *)
(***************************************************************************)
MaxQty == 1

MaxInvocations == 2

Products == {"p1", "p2"}

(* product.price, in cents *)
PriceCents == [p1 |-> 995, p2 |-> 10000]

NoUser == "none"

UserIds == {"u1"}

CartItem(p, q) == [product |-> p, quantity |-> q, size |-> "M", color |-> "black"]

(* carts: ordered sequences of lines over distinct products *)
Carts ==
  {<<>>}
  \cup {<<CartItem(p, q)>> : p \in Products, q \in 1..MaxQty}
  \cup {<<CartItem(p1, q1), CartItem(p2, q2)>> :
          <<p1, p2, q1, q2>> \in {x \in Products \X Products \X (1..MaxQty) \X (1..MaxQty) : x[1] # x[2]}}

RECURSIVE SubtotalCents(_)
SubtotalCents(its) ==
  IF its = <<>> THEN 0
  ELSE PriceCents[Head(its).product] * Head(its).quantity + SubtotalCents(Tail(its))

(* useCart().totalPrice: the subtotal as a JavaScript number *)
TotalPrice(its) == DoubleOfRatio(SubtotalCents(its), 100)

(***************************************************************************)
(* The shipping form (lines 9-16, 28-35, 172-277).                         *)
(***************************************************************************)
TextFields == {"fullName", "streetAddress", "city", "state", "postalCode"}

ShippingFields == TextFields \cup {"country"}

(* the options of the country select *)
Countries == {"USA", "Canada", "UK"}

(* the options the user picks among *)
CountryChoices == {c \in Countries : c # "UK"}

(* what the user types into a text input *)
TextValues == {"a"}

InitialShipping == [f \in ShippingFields |-> IF f = "country" THEN "USA" ELSE ""]

(* every input carries the `required` attribute: the browser submits the form
   only when no field is empty *)
FormValid(form) == \A f \in ShippingFields : form[f] # ""

(***************************************************************************)
(* Navigation targets.                                                     *)
(***************************************************************************)
NavCart == [to |-> "/cart", id |-> 0, from |-> ""]

NavLogin == [to |-> "/login", id |-> 0, from |-> "/checkout"]

NavConfirmation(orderId) == [to |-> "/order-confirmation", id |-> orderId, from |-> ""]

VARIABLES
  items,          \* useCart().items
  user,           \* useAuth().user
  step,           \* useState 'shipping' | 'payment'
  isProcessing,   \* useState boolean
  shipping,       \* useState ShippingForm
  mounted,        \* CheckoutPage is mounted under the router
  effectPending,  \* the entry-guard effect is scheduled (deps changed)
  navigations,    \* calls of navigate(), in order
  tasks,          \* handlePayment invocations: position and locals
  remoteCalls,    \* requests issued to the gateway and the repository
  orders,         \* rows of table orders
  orderItems      \* rows of table order_items

vars == <<items, user, step, isProcessing, shipping, mounted, effectPending,
          navigations, tasks, remoteCalls, orders, orderItems>>

Init ==
  /\ items \in Carts
  /\ user \in UserIds \cup {NoUser}
  /\ step = "shipping"
  /\ isProcessing = FALSE
  /\ shipping = InitialShipping
  /\ mounted = TRUE
  /\ effectPending = TRUE
  /\ navigations = <<>>
  /\ tasks = <<>>
  /\ remoteCalls = <<>>
  /\ orders = <<>>
  /\ orderItems = <<>>

(* line 134: the component renders its form only with a user and a cart *)
Rendered == mounted /\ ~effectPending /\ user # NoUser /\ Len(items) # 0

(* the guard written as if / else if *)
GuardNavigations_ElseIf(its, u) ==
  IF Len(its) = 0 THEN <<NavCart>>
  ELSE IF u = NoUser THEN <<NavLogin>> ELSE <<>>

(* lines 38-43: the navigate calls of one run of the guard effect *)
GuardNavigations(its, u) ==
  (IF Len(its) = 0 THEN <<NavCart>> ELSE <<>>)
  \o (IF u = NoUser THEN <<NavLogin>> ELSE <<>>)

(* lines 37-44; a navigation replaces the route, which unmounts the page *)
GuardEffect ==
  /\ mounted /\ effectPending
  /\ navigations' = navigations \o GuardNavigations(items, user)
  /\ effectPending' = FALSE
  /\ mounted' = (GuardNavigations(items, user) = <<>>)
  /\ UNCHANGED <<items, user, step, isProcessing, shipping, tasks, remoteCalls,
                 orders, orderItems>>

(* lines 46-49 *)
handleShippingChange(name, value) ==
  /\ Rendered /\ step = "shipping"
  /\ shipping' = [shipping EXCEPT ![name] = value]
  /\ UNCHANGED <<items, user, step, isProcessing, mounted, effectPending,
                 navigations, tasks, remoteCalls, orders, orderItems>>

(* lines 51-55, fired by the form's submit event (line 172) *)
handleShippingSubmit ==
  /\ Rendered /\ step = "shipping"
  /\ FormValid(shipping)
  /\ step' = "payment"
  /\ UNCHANGED <<items, user, isProcessing, shipping, mounted, effectPending,
                 navigations, tasks, remoteCalls, orders, orderItems>>

(* the Pay button without its disabled attribute *)
PayButtonDisabled_Never == FALSE

(* line 296 *)
PayButtonDisabled == isProcessing

(* the Back button without its disabled attribute *)
BackButtonDisabled_Never == FALSE

(* line 305 *)
BackButtonDisabled == isProcessing

(* lines 302-309 *)
BackToShipping ==
  /\ Rendered /\ step = "payment"
  /\ ~BackButtonDisabled
  /\ step' = "shipping"
  /\ UNCHANGED <<items, user, isProcessing, shipping, mounted, effectPending,
                 navigations, tasks, remoteCalls, orders, orderItems>>

(***************************************************************************)
(* handlePayment (lines 57-132).  pc names the await the invocation is     *)
(* suspended at; each action runs the code from one await to the next.     *)
(***************************************************************************)
Awaits == {"intent", "stripe", "confirm", "order", "items"}

InFlight(t) == t.pc \in Awaits

(* handlePayment without setIsProcessing(true) *)
ProcessingOnEntry_Unset == FALSE

(* line 59 *)
ProcessingOnEntry == TRUE

(* handlePayment without the reset in finally *)
ProcessingOnExit_Stuck == TRUE

(* lines 129-131 *)
ProcessingOnExit == FALSE

(* lines 62-68: the request body *)
IntentRequest(i, totalAmount) ==
  [inv |-> i, call |-> "create-payment-intent",
   amount |-> MathRound(FMul(totalAmount, DoubleOfInt(100))), currency |-> "usd",
   arg |-> 0]

(* lines 57-68, fired by a click on the Pay button (lines 294-300) *)
handlePayment ==
  /\ Rendered /\ step = "payment"
  /\ ~PayButtonDisabled
  /\ Len(tasks) < MaxInvocations
  /\ isProcessing' = ProcessingOnEntry
  /\ LET totalAmount == TotalAmount(TotalPrice(items)) IN
       /\ tasks' = Append(tasks,
            [pc |-> "intent", items |-> items, user |-> user,
             totalAmount |-> totalAmount, shipping |-> shipping,
             paymentIntent |-> 0, paymentError |-> "unset", stripe |-> "unset",
             stripeError |-> "unset", order |-> 0, orderError |-> "unset",
             itemsError |-> "unset"])
       /\ remoteCalls' = Append(remoteCalls, IntentRequest(Len(tasks) + 1, totalAmount))
  /\ UNCHANGED <<items, user, step, shipping, mounted, effectPending,
                 navigations, orders, orderItems>>

(* lines 126-131: catch, then finally *)
Fail(i, t) ==
  /\ tasks' = [tasks EXCEPT ![i] = [t EXCEPT !.pc = "failed"]]
  /\ isProcessing' = ProcessingOnExit

(* line 70 *)
PaymentErrorThrows(t) == t.paymentError # "none"

(* line 74 *)
StripeMissingThrows(t) == t.stripe # "loaded"

(* the confirmation error left unchecked *)
StripeErrorThrows_Ignored(t) == FALSE

(* line 90 *)
StripeErrorThrows(t) == t.stripeError # "none"

(* the Order insert error left unchecked *)
OrderErrorThrows_Ignored(t) == FALSE

(* line 105 *)
OrderErrorThrows(t) == t.orderError # "none"

(* the OrderItems insert error left unchecked *)
ItemsErrorThrows_Ignored(t) == FALSE

(* line 121 *)
ItemsErrorThrows(t) == t.itemsError # "none"

(* lines 62-73: create-payment-intent resolves *)
IntentReturns(i, ok) ==
  /\ i \in 1..Len(tasks) /\ tasks[i].pc = "intent"
  /\ LET t == [tasks[i] EXCEPT
                 !.paymentError = IF ok THEN "none" ELSE "err",
                 !.paymentIntent = IF ok THEN Len(remoteCalls) ELSE 0]
     IN IF PaymentErrorThrows(t)
        THEN Fail(i, t)
        ELSE /\ tasks' = [tasks EXCEPT ![i] = [t EXCEPT !.pc = "stripe"]]
             /\ UNCHANGED isProcessing
  /\ UNCHANGED <<items, user, step, shipping, mounted, effectPending,
                 navigations, remoteCalls, orders, orderItems>>

(* lines 73-88: stripePromise resolves; confirmCardPayment is issued *)
StripeLoaded(i, ok) ==
  /\ i \in 1..Len(tasks) /\ tasks[i].pc = "stripe"
  /\ LET t == [tasks[i] EXCEPT !.stripe = IF ok THEN "loaded" ELSE "null"]
     IN IF StripeMissingThrows(t)
        THEN Fail(i, t) /\ UNCHANGED remoteCalls
        ELSE /\ tasks' = [tasks EXCEPT ![i] = [t EXCEPT !.pc = "confirm"]]
             /\ remoteCalls' = Append(remoteCalls,
                  [inv |-> i, call |-> "confirmCardPayment", amount |-> 0,
                   currency |-> "", arg |-> t.paymentIntent])
             /\ UNCHANGED isProcessing
  /\ UNCHANGED <<items, user, step, shipping, mounted, effectPending,
                 navigations, orders, orderItems>>

(* lines 77-103: confirmCardPayment resolves; the orders insert is issued *)
ConfirmReturns(i, ok) ==
  /\ i \in 1..Len(tasks) /\ tasks[i].pc = "confirm"
  /\ LET t == [tasks[i] EXCEPT !.stripeError = IF ok THEN "none" ELSE "err"]
     IN IF StripeErrorThrows(t)
        THEN Fail(i, t) /\ UNCHANGED remoteCalls
        ELSE /\ tasks' = [tasks EXCEPT ![i] = [t EXCEPT !.pc = "order"]]
             /\ remoteCalls' = Append(remoteCalls,
                  [inv |-> i, call |-> "insert orders", amount |-> 0,
                   currency |-> "", arg |-> 0])
             /\ UNCHANGED isProcessing
  /\ UNCHANGED <<items, user, step, shipping, mounted, effectPending,
                 navigations, orders, orderItems>>

(* lines 95-101: the row handed to the orders table *)
OrderRow(t, id) ==
  [id |-> id, user_id |-> t.user, total |-> t.totalAmount, status |-> "processing",
   shipping_address |-> t.shipping, payment_method |-> "stripe"]

(* lines 108-115 *)
OrderItemRows(t) ==
  [k \in 1..Len(t.items) |->
     [order_id |-> t.order, product_id |-> t.items[k].product,
      quantity |-> t.items[k].quantity, size |-> t.items[k].size,
      color |-> t.items[k].color, price |-> PriceCents[t.items[k].product]]]

(* lines 93-119: the orders insert resolves; the order_items insert is issued *)
OrderReturns(i, ok) ==
  /\ i \in 1..Len(tasks) /\ tasks[i].pc = "order"
  /\ orders' = IF ok THEN Append(orders, OrderRow(tasks[i], Len(orders) + 1)) ELSE orders
  /\ LET t == [tasks[i] EXCEPT !.orderError = IF ok THEN "none" ELSE "err",
                               !.order = IF ok THEN Len(orders) + 1 ELSE 0]
     IN IF OrderErrorThrows(t)
        THEN Fail(i, t) /\ UNCHANGED remoteCalls
        ELSE /\ tasks' = [tasks EXCEPT ![i] = [t EXCEPT !.pc = "items"]]
             /\ remoteCalls' = Append(remoteCalls,
                  [inv |-> i, call |-> "insert order_items", amount |-> 0,
                   currency |-> "", arg |-> t.order])
             /\ UNCHANGED isProcessing
  /\ UNCHANGED <<items, user, step, shipping, mounted, effectPending,
                 navigations, orderItems>>

(* lines 117-131: the order_items insert resolves; on success the cart is
   cleared and the confirmation view is navigated to.  Whether the router's
   update commits together with the cart's (the page unmounts at once) or
   after it (the page re-renders with an empty cart and its guard effect is
   scheduled) depends on the React and router versions, which the source
   does not fix. *)
ItemsReturns(i, ok, together) ==
  /\ i \in 1..Len(tasks) /\ tasks[i].pc = "items"
  /\ orderItems' = IF ok THEN orderItems \o OrderItemRows(tasks[i]) ELSE orderItems
  /\ LET t == [tasks[i] EXCEPT !.itemsError = IF ok THEN "none" ELSE "err"]
     IN IF ItemsErrorThrows(t)
        THEN /\ Fail(i, t)
             /\ UNCHANGED <<items, navigations, mounted, effectPending>>
        ELSE /\ tasks' = [tasks EXCEPT ![i] = [t EXCEPT !.pc = "done"]]
             /\ items' = <<>>
             /\ navigations' = Append(navigations, NavConfirmation(t.order))
             /\ isProcessing' = ProcessingOnExit
             /\ IF together
                THEN mounted' = FALSE /\ effectPending' = effectPending
                ELSE mounted' = mounted /\ effectPending' = mounted
  /\ UNCHANGED <<user, step, shipping, remoteCalls, orders>>

Next ==
  \/ GuardEffect
  \/ \E f \in TextFields, v \in TextValues : handleShippingChange(f, v)
  \/ \E v \in CountryChoices : handleShippingChange("country", v)
  \/ handleShippingSubmit
  \/ BackToShipping
  \/ handlePayment
  \/ \E i \in 1..MaxInvocations, ok \in BOOLEAN : IntentReturns(i, ok)
  \/ \E i \in 1..MaxInvocations, ok \in BOOLEAN : StripeLoaded(i, ok)
  \/ \E i \in 1..MaxInvocations, ok \in BOOLEAN : ConfirmReturns(i, ok)
  \/ \E i \in 1..MaxInvocations, ok \in BOOLEAN : OrderReturns(i, ok)
  \/ \E i \in 1..MaxInvocations, ok \in BOOLEAN, together \in BOOLEAN :
       ItemsReturns(i, ok, together)

Spec == Init /\ [][Next]_vars

(* the remote calls are never cancelled and carry no timeout: each one
   eventually resolves or rejects, and React runs a scheduled effect *)
FairSpec ==
  /\ Spec
  /\ WF_vars(GuardEffect)
  /\ WF_vars(\E i \in 1..MaxInvocations, ok \in BOOLEAN : IntentReturns(i, ok))
  /\ WF_vars(\E i \in 1..MaxInvocations, ok \in BOOLEAN : StripeLoaded(i, ok))
  /\ WF_vars(\E i \in 1..MaxInvocations, ok \in BOOLEAN : ConfirmReturns(i, ok))
  /\ WF_vars(\E i \in 1..MaxInvocations, ok \in BOOLEAN : OrderReturns(i, ok))
  /\ WF_vars(\E i \in 1..MaxInvocations, ok \in BOOLEAN, together \in BOOLEAN :
               ItemsReturns(i, ok, together))

(***************************************************************************)
(* Properties.                                                             *)
(***************************************************************************)
TaskIds == 1..Len(tasks)

Ended(t) == t.pc \in {"done", "failed"}

OrderRowsOf(t) == {k \in 1..Len(orders) : t.order # 0 /\ orders[k].id = t.order}

ItemRowsOf(t) == {k \in 1..Len(orderItems) : orderItems[k].order_id = t.order}

CallsOf(i, name) ==
  {k \in 1..Len(remoteCalls) : remoteCalls[k].inv = i /\ remoteCalls[k].call = name}

LastNavigation == navigations[Len(navigations)]

(* C1: an Order row exists only for an invocation whose card confirmation
   succeeded, OrderItem rows only for one whose Order insert succeeded, and
   the cart is cleared only by an invocation whose Order insert and
   OrderItems insert both succeeded *)
C1_OrderedSideEffects ==
  /\ \A i \in TaskIds :
       /\ tasks[i].order # 0 => tasks[i].stripeError = "none"
       /\ tasks[i].pc = "done" =>
            tasks[i].orderError = "none" /\ tasks[i].itemsError = "none"
  /\ \A k \in 1..Len(orders) :
       \E i \in TaskIds : tasks[i].order = orders[k].id /\ tasks[i].stripeError = "none"
  /\ \A k \in 1..Len(orderItems) :
       \E i \in TaskIds : /\ tasks[i].order = orderItems[k].order_id
                          /\ tasks[i].order # 0
                          /\ tasks[i].orderError = "none"
  /\ (tasks # <<>> /\ items = <<>>) =>
       \E i \in TaskIds : /\ tasks[i].pc = "done"
                          /\ tasks[i].orderError = "none"
                          /\ tasks[i].itemsError = "none"

C1_Witness ==
  \E i \in TaskIds : /\ tasks[i].pc = "done"
                     /\ items = <<>>
                     /\ OrderRowsOf(tasks[i]) # {}
                     /\ ItemRowsOf(tasks[i]) # {}

C2_NoLaterStep ==
  \A i \in TaskIds :
    LET t == tasks[i] IN
    /\ t.paymentError = "err" =>
         t.stripe = "unset" /\ CallsOf(i, "confirmCardPayment") = {}
    /\ (t.paymentError = "err" \/ t.stripe = "null") =>
         t.stripeError = "unset" /\ CallsOf(i, "confirmCardPayment") = {}
    /\ (t.paymentError = "err" \/ t.stripe = "null" \/ t.stripeError = "err") =>
         /\ t.orderError = "unset" /\ t.order = 0
         /\ CallsOf(i, "insert orders") = {}
    /\ (t.paymentError = "err" \/ t.stripe = "null" \/ t.stripeError = "err"
          \/ t.orderError = "err") =>
         /\ t.itemsError = "unset"
         /\ CallsOf(i, "insert order_items") = {}
         /\ ItemRowsOf(t) = {}
    /\ (t.paymentError = "err" \/ t.stripe = "null" \/ t.stripeError = "err"
          \/ t.orderError = "err" \/ t.itemsError = "err") =>
         /\ t.pc = "failed"
         /\ \A k \in 1..Len(navigations) :
              navigations[k].to = "/order-confirmation" =>
                navigations[k].id # t.order

C2_FailureStep ==
  \A i \in TaskIds :
    (InFlight(tasks[i]) /\ tasks'[i].pc = "failed") =>
       /\ isProcessing' = FALSE
       /\ step = "payment" /\ step' = "payment"
       /\ items' = items /\ navigations' = navigations

(* C2: a failure at any of the steps aborts the later steps of the
   invocation (no later request, no later row, no cart clearing, no
   navigation), and the invocation ends with isProcessing false and the step
   still payment *)
C2_FailureAborts == []C2_NoLaterStep /\ [][C2_FailureStep]_vars

C2_Witness ==
  /\ Len(tasks) = 2
  /\ tasks[1].pc = "failed" /\ tasks[1].paymentError = "err"
  /\ tasks[2].pc = "failed" /\ tasks[2].orderError = "err"
  /\ ~isProcessing /\ step = "payment"

SuccessRows(t) ==
  /\ Cardinality(OrderRowsOf(t)) = 1
  /\ Cardinality(ItemRowsOf(t)) = Len(t.items)

(* C3 as stated: one Order and N OrderItems after full success, and no row
   at all after a failure at whichever step *)
C3_ZeroRecordsOnAnyFailure ==
  \A i \in TaskIds :
    /\ tasks[i].pc = "done" => SuccessRows(tasks[i])
    /\ tasks[i].pc = "failed" =>
         tasks[i].order = 0 /\ OrderRowsOf(tasks[i]) = {} /\ ItemRowsOf(tasks[i]) = {}

(* C3 amended: one Order and N OrderItems after full success; no row after a
   failure of intent creation, Stripe loading, confirmation or the Order
   insert; after a failure of the OrderItems insert the invocation's Order
   row stays, with no OrderItem row *)
C3_RecordsLeft ==
  /\ \A i \in TaskIds :
       /\ tasks[i].pc = "done" => SuccessRows(tasks[i])
       /\ (tasks[i].pc = "failed" /\ tasks[i].itemsError # "err") =>
            tasks[i].order = 0 /\ OrderRowsOf(tasks[i]) = {}
       /\ (tasks[i].pc = "failed" /\ tasks[i].itemsError = "err") =>
            /\ Cardinality(OrderRowsOf(tasks[i])) = 1
            /\ ItemRowsOf(tasks[i]) = {}
  /\ Len(orders) = Cardinality({i \in TaskIds : tasks[i].order # 0})
  /\ \A k \in 1..Len(orderItems) :
       \E i \in TaskIds : tasks[i].order # 0 /\ tasks[i].order = orderItems[k].order_id

C3_Witness ==
  /\ Len(tasks) = 2
  /\ tasks[1].pc = "failed" /\ tasks[1].itemsError = "err"
  /\ tasks[2].pc = "done"
  /\ Len(orders) = 2
  /\ Len(orderItems) = Len(tasks[2].items)

(* C4: after a fully successful invocation on a cart of N lines there are
   exactly one Order and N OrderItems referencing it, the cart is empty, and
   once the page has settled the last navigation is the confirmation view of
   the new order *)
C4_SuccessEndsOnConfirmation ==
  \A i \in TaskIds :
    (tasks[i].pc = "done" /\ ~effectPending) =>
       /\ SuccessRows(tasks[i])
       /\ \A k \in ItemRowsOf(tasks[i]) : orderItems[k].order_id = tasks[i].order
       /\ items = <<>>
       /\ LastNavigation = NavConfirmation(tasks[i].order)

(* C5: while isProcessing is true no new invocation starts and no new
   payment intent is requested, and at most one invocation is in flight *)
C5_NoReentry ==
  /\ [](Cardinality({i \in TaskIds : InFlight(tasks[i])}) <= 1)
  /\ [][isProcessing =>
          /\ Len(tasks') = Len(tasks)
          /\ \A k \in (Len(remoteCalls) + 1)..Len(remoteCalls') :
               remoteCalls'[k].call # "create-payment-intent"]_vars

C5_Witness ==
  /\ isProcessing
  /\ Rendered /\ step = "payment"
  /\ Len(tasks) = 1 /\ Len(tasks) < MaxInvocations
  /\ tasks[1].pc = "confirm"

GuardRuns == mounted /\ effectPending /\ ~effectPending'

NewNavigations == SubSeq(navigations', Len(navigations) + 1, Len(navigations'))

(* C6 as stated: a run of the guard with an empty cart ends on the cart
   view whatever the identity, one with no identity ends on the login view
   whatever the cart, and one with a cart and an identity navigates nowhere *)
C6_GuardAsStated ==
  [][GuardRuns =>
       /\ Len(items) = 0 =>
            NewNavigations # <<>> /\ NewNavigations[Len(NewNavigations)] = NavCart
       /\ user = NoUser =>
            NewNavigations # <<>> /\ NewNavigations[Len(NewNavigations)] = NavLogin
       /\ (Len(items) # 0 /\ user # NoUser) => NewNavigations = <<>>]_vars

(* C6 amended: with no identity the guard ends on the login view with
   return path /checkout whatever the cart (after a first navigation to the
   cart view when the cart is empty too); with an identity and an empty cart
   it navigates to the cart view; with both present it navigates nowhere *)
C6_Guard ==
  [][GuardRuns =>
       /\ (Len(items) = 0 /\ user = NoUser) => NewNavigations = <<NavCart, NavLogin>>
       /\ (Len(items) # 0 /\ user = NoUser) => NewNavigations = <<NavLogin>>
       /\ (Len(items) = 0 /\ user # NoUser) => NewNavigations = <<NavCart>>
       /\ (Len(items) # 0 /\ user # NoUser) => NewNavigations = <<>> /\ mounted']_vars

C6_Witness ==
  /\ Len(items) = 0 /\ user = NoUser
  /\ ~effectPending
  /\ navigations = <<NavCart, NavLogin>>

(* C7: the step changes only from shipping to payment, with a valid form,
   and from payment to shipping, with isProcessing false; it never changes
   while a payment is being processed *)
C7_StepTransitions ==
  [][/\ step' # step =>
          \/ step = "shipping" /\ step' = "payment" /\ FormValid(shipping)
                /\ ~isProcessing
          \/ step = "payment" /\ step' = "shipping" /\ ~isProcessing
     /\ isProcessing => step' = step]_vars

C7_Witness ==
  /\ Len(tasks) = 2
  /\ tasks[1].pc = "failed"
  /\ tasks[1].shipping # tasks[2].shipping
  /\ InFlight(tasks[2]) /\ isProcessing /\ step = "payment" /\ Rendered

(* C8: every payment-intent request carries currency usd and the amount
   round(subtotal * 1.1 * 100), i.e. 11/10 of the subtotal in cents rounded
   half up *)
C8_GatewayAmount ==
  \A k \in 1..Len(remoteCalls) :
    remoteCalls[k].call = "create-payment-intent" =>
      /\ remoteCalls[k].currency = "usd"
      /\ remoteCalls[k].amount =
           (11 * SubtotalCents(tasks[remoteCalls[k].inv].items) + 5) \div 10

(* C9: every invocation eventually ends with isProcessing false, and
   isProcessing is true only while an invocation awaits a call *)
C9_ProcessingEnds ==
  /\ \A i \in 1..MaxInvocations :
       (i <= Len(tasks) /\ InFlight(tasks[i]))
         ~> (i <= Len(tasks) /\ Ended(tasks[i]) /\ ~isProcessing)
  /\ [](isProcessing => \E i \in TaskIds : InFlight(tasks[i]))

C9_Witness ==
  /\ Len(tasks) = 2
  /\ tasks[1].pc = "failed" /\ tasks[1].stripeError = "err"
  /\ tasks[2].pc = "done"
  /\ ~isProcessing

(* C10: while a call issued by handlePayment is outstanding isProcessing is
   true and the step is payment; isProcessing goes from true to false only
   on a step after which no invocation awaits a call *)
C10_ProcessingCoversCalls ==
  /\ [](\A i \in TaskIds : InFlight(tasks[i]) => isProcessing /\ step = "payment")
  /\ [][(isProcessing /\ ~isProcessing') =>
          \A i \in 1..Len(tasks') : ~InFlight(tasks'[i])]_vars

C10_Witness ==
  /\ Len(tasks) = 2
  /\ tasks[2].pc = "items"
  /\ Len(remoteCalls) >= 5
  /\ isProcessing /\ step = "payment"
====
